---- MODULE Spec2Model ----
(***************************************************************************)
(* Attendance locking and upsert workflow of smart-attendance-hub.         *)
(*                                                                         *)
(* Two write paths exist in the repository and both are modelled:          *)
(*   - the Express server (POST /api/attendance/upsert) over the drizzle   *)
(*     schema, whose handler reads, branches and writes record by record;  *)
(*   - the Supabase client page (MarkAttendance.handleSave) that issues a  *)
(*     single upsert guarded by the row level security policies.           *)
(* A deployment uses one of them; `backend` selects it in Init.            *)
(*                                                                         *)
(* Time is in milliseconds counted from 2025-01-10T00:00:00.000Z, the      *)
(* calendar date with number 0.                                            *)
(***************************************************************************)
EXTENDS Integers, Sequences, FiniteSets, TLC

----------------------------------------------------------------------------
(* Bounds of the model                                                      *)

MaxReq == 2
MaxBatch == 2
MaxSaves == 2
MaxRecords == 3
MaxCohort == 2
MaxPending == 2

----------------------------------------------------------------------------
(* Fixed data: users, roles, students and their class/section              *)

Users == {"ua", "ut", "ux", "us"}

RoleOf(u) == CASE u = "ua" -> "admin" [] u \in {"ut", "ux"} -> "teacher" [] OTHER -> "student"

Students == {"s1"}

Cohorts == {<<"c1", "a">>}

CohortOf(s) == <<"c1", "a">>

\* teacher_assignments: the teacher "ut" is assigned to class c1 section a, "ux" to none
TeacherAssignments == {[teacher |-> "ut", cohort |-> <<"c1", "a">>]}

\* the active students of a class/section, ordered by roll number
RosterOf(cohort) == IF cohort = <<"c1", "a">> THEN <<"s1">> ELSE <<>>

\* /attendance/mark is routed to admins and teachers
PageUsers == {"ua", "ut", "ux"}

Dates == {0, 1}

Statuses == {"present", "absent", "late"}

Null == "null"

Empty == ""

\* what a request may carry as status and remarks of a record
Marks == {[status |-> "present", remarks |-> Null], [status |-> "absent", remarks |-> "sick"]}

RecordInputs ==
  {[studentId |-> s, date |-> d, status |-> m.status, remarks |-> m.remarks] :
     s \in Students, d \in Dates, m \in Marks}

Batches == UNION {[1..n -> RecordInputs] : n \in 1..MaxBatch}

----------------------------------------------------------------------------
(* Time                                                                     *)

HourMs == 3600000

DayMs == 24 * HourMs

\* instants the server clock takes in the workflow specifications
Instants == {12 * HourMs, 60 * HourMs, 84 * HourMs}

\* instants around the lock boundaries, for the specification of the lock rule
ProbeHours == {23, 24, 29, 47, 48, 53, 72}

FineInstants == {h * HourMs + e : h \in ProbeHours, e \in {-2, -1, 0}}

\* offsets (hours east of UTC) of the server's local time zone
TzOffsets == {-5, 0, 1}

----------------------------------------------------------------------------
(* parseInt of the stored setting; strings are sequences of characters      *)

\* a JavaScript number: an integer or NaN
NaN == [nan |-> TRUE, v |-> 0]

Num(n) == [nan |-> FALSE, v |-> n]

Str24 == <<"2", "4">>

\* INSERT INTO settings: ('low_attendance_threshold', '75', ...)
Str75 == <<"7", "5">>

SettingValues == {Str24, <<"0">>, <<"4", "8">>, <<"a", "b", "c">>, <<>>, <<"-", "2", "4">>}

DigitChars == {"0", "1", "2", "3", "4", "5", "6", "7", "8", "9"}

DigitVal(c) ==
  CASE c = "0" -> 0 [] c = "1" -> 1 [] c = "2" -> 2 [] c = "3" -> 3 [] c = "4" -> 4
    [] c = "5" -> 5 [] c = "6" -> 6 [] c = "7" -> 7 [] c = "8" -> 8 [] OTHER -> 9

RECURSIVE SkipSpace(_)
SkipSpace(s) == IF s # <<>> /\ Head(s) = " " THEN SkipSpace(Tail(s)) ELSE s

\* value of the longest prefix of decimal digits of s, NaN when it is empty
RECURSIVE DigitsValue(_, _, _)
DigitsValue(s, acc, seen) ==
  IF s # <<>> /\ Head(s) \in DigitChars
  THEN DigitsValue(Tail(s), 10 * acc + DigitVal(Head(s)), TRUE)
  ELSE IF seen THEN Num(acc) ELSE NaN

ParseInt(str) ==
  LET s == SkipSpace(str)
      neg == s # <<>> /\ Head(s) = "-"
      body == IF s # <<>> /\ Head(s) \in {"-", "+"} THEN Tail(s) ELSE s
      n == DigitsValue(body, 0, FALSE)
  IN IF n.nan THEN NaN ELSE IF neg THEN Num(0 - n.v) ELSE n

\* const [lockSetting] = rows; parseInt(lockSetting?.value || '24')
LockHoursOf(rows) == ParseInt(IF rows = <<>> \/ rows[1] = <<>> THEN Str24 ELSE rows[1])

----------------------------------------------------------------------------
(* The lock rule of the Express server                                      *)

\* new Date("YYYY-MM-DD"): midnight UTC of the calendar date
DateToMs(d) == d * DayMs

FloorDiv(a, b) == IF a >= 0 THEN a \div b ELSE 0 - ((0 - a + b - 1) \div b)

\* lockTime.setHours(23, 59, 59, 999): the fields are set in local time
EndOfLocalDay(ms, offset) ==
  LET local == ms + offset * HourMs
      dayStart == FloorDiv(local, DayMs) * DayMs
  IN (dayStart + DayMs - 1) - offset * HourMs

\* lockTime.setHours(lockTime.getHours() + lockHours); NaN makes the date invalid
LockTime(date, lockHours, offset) ==
  IF lockHours.nan THEN NaN
  ELSE Num(EndOfLocalDay(DateToMs(date), offset) + lockHours.v * HourMs)

\* now > lockTime, false against an invalid date
PastLockTime(now, lockTime) == ~lockTime.nan /\ now > lockTime.v

\* variant of UpsertLocked that applies the time window to every role
UpsertLockedNoBypass(role, date, lockHours, now, offset) ==
  PastLockTime(now, LockTime(date, lockHours, offset))

\* the check of the upsert loop: skipped for admins
UpsertLocked(role, date, lockHours, now, offset) ==
  role # "admin" /\ PastLockTime(now, LockTime(date, lockHours, offset))

----------------------------------------------------------------------------
(* State                                                                    *)

VARIABLES
  backend,      \* "express" or "supabase": the write path of the deployment
  tz,           \* the server's local offset from UTC, in hours
  clock,        \* the current instant
  attendance,   \* the rows of table attendance
  nextId,       \* the next row id (gen_random_uuid / defaultRandom)
  lockSetting,  \* values of the settings rows with key attendance_lock_hours (none or one)
  locks,        \* the rows of table attendance_locks
  req,          \* POST /api/attendance/upsert: the handler's locals, per request
  page,         \* state of the MarkAttendance page of the Supabase client
  probe,        \* the last answers of the lock rule (upsert gate and check-lock)
  lastWrite,    \* per (studentId, date): the values of the last applied write
  threshold,    \* value of the settings row with key low_attendance_threshold
  report,       \* the last report: its inputs and what was computed
  audit         \* the rows of table audit_logs, in the order of their insertion

vars ==
  <<backend, tz, clock, attendance, nextId, lockSetting, locks, req, page, probe, lastWrite,
    threshold, report, audit>>

Keys == Students \X Dates

NoWrite == [status |-> "none", remarks |-> Null, markedBy |-> "none"]

IdleReq ==
  [pc |-> "idle", user |-> "none", batch |-> <<>>, idx |-> 0, lockHours |-> NaN,
   now |-> 0, existing |-> 0, stamp |-> 0, res |-> "none", wrote |-> 0, pre |-> {}]

Reqs == 1..MaxReq

----------------------------------------------------------------------------
(* Table attendance                                                         *)

\* select ... where student_id = ? and date = ?
FindExisting(att, studentId, date) ==
  {row \in att : row.studentId = studentId /\ row.date = date}

\* variant of UpdateRow that also rewrites marked_at
UpdateRowRestamp(att, id, rec, user, stamp) ==
  {IF row.id = id
   THEN [row EXCEPT !.status = rec.status, !.remarks = rec.remarks,
                    !.markedBy = user, !.markedAt = stamp, !.updatedAt = stamp]
   ELSE row : row \in att}

\* variant of UpdateRow whose where clause names the student, not the row
UpdateRowOfStudent(att, id, rec, user, stamp) ==
  {IF row.studentId = rec.studentId
   THEN [row EXCEPT !.status = rec.status, !.remarks = rec.remarks,
                    !.markedBy = user, !.updatedAt = stamp]
   ELSE row : row \in att}

\* db.update(attendance).set({status, remarks, markedBy, updatedAt}).where(id = ?)
UpdateRow(att, id, rec, user, stamp) ==
  {IF row.id = id
   THEN [row EXCEPT !.status = rec.status, !.remarks = rec.remarks,
                    !.markedBy = user, !.updatedAt = stamp]
   ELSE row : row \in att}

\* db.insert(attendance).values({...}): marked_at and updated_at default to now()
InsertRow(att, id, rec, user, t) ==
  att \cup {[id |-> id, studentId |-> rec.studentId, date |-> rec.date,
             status |-> rec.status, remarks |-> rec.remarks, markedBy |-> user,
             markedAt |-> t, updatedAt |-> t]}

WriteOf(rec, user) == [status |-> rec.status, remarks |-> rec.remarks, markedBy |-> user]

----------------------------------------------------------------------------
(* POST /api/attendance/upsert                                              *)
(* A step is one database operation together with the handler code that    *)
(* runs when its result arrives, up to the next await.                      *)

\* variant of LoopHead that reads the stored setting and the clock at each record
LoopHeadLive(q) ==
  IF q.idx > Len(q.batch)
  THEN [q EXCEPT !.pc = "done", !.res = "ok"]
  ELSE IF UpsertLocked(RoleOf(q.user), q.batch[q.idx].date, LockHoursOf(lockSetting), clock, tz)
       THEN [q EXCEPT !.pc = "done", !.res = "locked"]
       ELSE [q EXCEPT !.pc = "select"]

\* top of the for loop: leave it, reject the record as locked, or go on to the select
LoopHead(q) ==
  IF q.idx > Len(q.batch)
  THEN [q EXCEPT !.pc = "done", !.res = "ok"]
  ELSE IF UpsertLocked(RoleOf(q.user), q.batch[q.idx].date, q.lockHours, q.now, tz)
       THEN [q EXCEPT !.pc = "done", !.res = "locked"]
       ELSE [q EXCEPT !.pc = "select"]

\* the handler's locals once the lock setting is read and now = new Date() is taken
Entered(u, batch) ==
  [IdleReq EXCEPT !.user = u, !.batch = batch, !.idx = 1,
                  !.lockHours = LockHoursOf(lockSetting), !.now = clock,
                  !.pre = attendance]

\* the request arrives; the lock setting is read; first iteration of the loop
UpsertBegin(r, u, batch) ==
  /\ backend = "express"
  /\ req[r].pc = "idle"
  /\ \A p \in Reqs : p < r => req[p].pc # "idle"
  /\ req' = [req EXCEPT ![r] = LoopHead(Entered(u, batch))]
  /\ UNCHANGED <<backend, tz, clock, attendance, nextId, lockSetting, locks, page, probe, lastWrite,
                 threshold, report, audit>>

\* the select of the existing row returns (limit 1: any one matching row)
UpsertSelect(r) ==
  /\ req[r].pc = "select"
  /\ LET q == req[r]
         rec == q.batch[q.idx]
         found == FindExisting(attendance, rec.studentId, rec.date)
     IN \E e \in (IF found = {} THEN {0} ELSE {row.id : row \in found}) :
          req' = [req EXCEPT ![r] = [q EXCEPT !.pc = "write", !.existing = e, !.stamp = clock]]
  /\ UNCHANGED <<backend, tz, clock, attendance, nextId, lockSetting, locks, page, probe, lastWrite,
                 threshold, report, audit>>

\* the update or the insert is executed; next iteration or the response.
\* A status outside the enum attendance_status makes the statement fail: the
\* catch block answers 500 and what was written before stays.
UpsertWrite(r) ==
  /\ req[r].pc = "write"
  /\ LET q == req[r]
         rec == q.batch[q.idx]
     IN IF rec.status \notin Statuses
        THEN /\ req' = [req EXCEPT ![r] = [q EXCEPT !.pc = "done", !.res = "error"]]
             /\ UNCHANGED <<attendance, nextId, lastWrite>>
        ELSE /\ IF q.existing # 0
                THEN /\ attendance' = UpdateRow(attendance, q.existing, rec, q.user, q.stamp)
                     /\ nextId' = nextId
                ELSE /\ attendance' = InsertRow(attendance, nextId, rec, q.user, clock)
                     /\ nextId' = nextId + 1
             /\ lastWrite' = [lastWrite EXCEPT ![<<rec.studentId, rec.date>>] = WriteOf(rec, q.user)]
             /\ req' = [req EXCEPT ![r] = LoopHead([q EXCEPT !.idx = q.idx + 1, !.wrote = q.wrote + 1])]
  /\ UNCHANGED <<backend, tz, clock, lockSetting, locks, page, probe,
                 threshold, report, audit>>

----------------------------------------------------------------------------
(* GET /api/attendance/check-lock, POST /api/settings/bulk, the clock       *)

\* variant of CheckLockEndpoint that answers locked at the lock time itself
CheckLockEndpointInclusive(date, rows, now, offset) ==
  LET lockTime == LockTime(date, LockHoursOf(rows), offset)
  IN ~lockTime.nan /\ now >= lockTime.v

\* res.json({ isLocked: now > lockTime })
CheckLockEndpoint(date, rows, now, offset) ==
  PastLockTime(now, LockTime(date, LockHoursOf(rows), offset))

\* what the lock rule answers now: to an upsert of one record and to check-lock
LockProbe(u, rec) ==
  /\ backend = "express"
  /\ probe' = [user |-> u, date |-> rec.date, now |-> clock,
               hours |-> LockHoursOf(lockSetting),
               rejected |-> LoopHead(Entered(u, <<rec>>)).res = "locked",
               isLocked |-> CheckLockEndpoint(rec.date, lockSetting, clock, tz)]
  /\ UNCHANGED <<backend, tz, clock, attendance, nextId, lockSetting, locks, req, page, lastWrite,
                 threshold, report, audit>>

\* db.update(settings).set({value}).where(id = ?): any authenticated user
SettingsBulk(u, v) ==
  /\ backend = "express"
  /\ lockSetting' = [i \in 1..Len(lockSetting) |-> v]
  /\ UNCHANGED <<backend, tz, clock, attendance, nextId, locks, req, page, probe, lastWrite,
                 threshold, report, audit>>

Tick(t) ==
  /\ t > clock
  /\ clock' = t
  /\ UNCHANGED <<backend, tz, attendance, nextId, lockSetting, locks, req, page, probe, lastWrite,
                 threshold, report, audit>>

----------------------------------------------------------------------------
(* Supabase: row level security and the MarkAttendance page                 *)

\* EXISTS (students s JOIN teacher_assignments ta JOIN teachers t ...)
Covered(u, studentId) ==
  \E ta \in TeacherAssignments : ta.teacher = u /\ ta.cohort = CohortOf(studentId)

\* "Admins can manage attendance", "Teachers can mark / update attendance for their classes"
RlsWriteOk(u, studentId) ==
  \/ RoleOf(u) = "admin"
  \/ RoleOf(u) = "teacher" /\ Covered(u, studentId)

\* insert ... on conflict (student_id, date) do update, with the updated_at trigger
RECURSIVE UpsertRows(_, _, _, _, _)
UpsertRows(att, id, recs, user, t) ==
  IF recs = <<>> THEN [att |-> att, nextId |-> id]
  ELSE LET rec == Head(recs)
           found == FindExisting(att, rec.studentId, rec.date)
       IN IF found # {}
          THEN UpsertRows({IF row \in found
                           THEN [row EXCEPT !.status = rec.status, !.remarks = rec.remarks,
                                            !.markedBy = user, !.updatedAt = t]
                           ELSE row : row \in att}, id, Tail(recs), user, t)
          ELSE UpsertRows(InsertRow(att, id, rec, user, t), id + 1, Tail(recs), user, t)

\* attendance_audit_trigger, AFTER INSERT OR UPDATE, for each row of one statement
\* over records of distinct pairs: log_attendance_changes() with auth.uid() = user
LogAttendanceChanges(before, after, recs, user) ==
  [i \in 1..Len(recs) |->
     LET old == FindExisting(before, recs[i].studentId, recs[i].date)
         new == CHOOSE row \in FindExisting(after, recs[i].studentId, recs[i].date) : TRUE
     IN IF old = {}
        THEN [action |-> "INSERT", recordId |-> new.id, oldData |-> Null, newData |-> new,
              performedBy |-> user]
        ELSE [action |-> "UPDATE", recordId |-> new.id,
              oldData |-> CHOOSE row \in old : TRUE, newData |-> new,
              performedBy |-> user]]

\* no request of the page is under way
NoneInFlight == [d \in Dates |-> 0]

\* state of the MarkAttendance component; fetching and checking count the
\* fetchStudents and checkLock calls under way per date they were started for,
\* sent holds the save requests under way, each with its records and the upsert
\* request of the Express server that carries it (0: none), loadedFor and
\* lockedFor are the dates whose roster and lock state were set last (-1: none)
ClosedPage ==
  [user |-> "none", selected |-> FALSE, date |-> 0, isLocked |-> FALSE,
   fetching |-> NoneInFlight, checking |-> NoneInFlight, loading |-> FALSE,
   saving |-> FALSE, sent |-> <<>>, students |-> <<>>,
   loadedFor |-> -1, lockedFor |-> -1, res |-> "none", saves |-> 0]

PageCohort == <<"c1", "a">>

\* the sequence without its k-th element
Without(seq, k) == SubSeq(seq, 1, k - 1) \o SubSeq(seq, k + 1, Len(seq))

RECURSIVE SumOver(_, _)
SumOver(f, S) ==
  IF S = {} THEN 0
  ELSE LET x == CHOOSE y \in S : TRUE IN f[x] + SumOver(f, S \ {x})

\* the numbers of fetchStudents and of checkLock calls under way
Fetching == SumOver(page.fetching, Dates)

Checking == SumOver(page.checking, Dates)

\* the class, section and date are chosen: the effect calls fetchStudents, which
\* sets loading, and checkLock, both for the date just selected
SupaSelect(d) ==
  /\ backend = "supabase"
  /\ ~page.selected \/ d # page.date
  /\ Fetching < MaxPending /\ Checking < MaxPending
  /\ page' = [page EXCEPT !.selected = TRUE, !.date = d, !.loading = TRUE,
                          !.fetching[d] = @ + 1, !.checking[d] = @ + 1]
  /\ UNCHANGED <<backend, tz, clock, attendance, nextId, lockSetting, locks, req, probe, lastWrite,
                 threshold, report, audit>>

\* fetchStudents: status of the existing row or 'present', remarks or ''
RosterRow(att, studentId, date) ==
  LET found == FindExisting(att, studentId, date)
  IN IF found = {}
     THEN [id |-> studentId, status |-> "present", remarks |-> Empty]
     ELSE LET row == CHOOSE x \in found : TRUE
          IN [id |-> studentId, status |-> row.status,
              remarks |-> IF row.remarks = Null THEN Empty ELSE row.remarks]

\* variant of SupaFetchStudents that stores the pre-filled rows
SupaFetchStudentsPersist(d) ==
  /\ backend = "supabase"
  /\ page.fetching[d] > 0
  /\ LET roster == RosterOf(PageCohort)
         shown == [i \in 1..Len(roster) |-> RosterRow(attendance, roster[i], d)]
         out == UpsertRows(attendance, nextId,
                           [i \in 1..Len(roster) |->
                              [studentId |-> shown[i].id, date |-> d,
                               status |-> shown[i].status, remarks |-> Null]],
                           page.user, clock)
     IN /\ page' = [page EXCEPT !.fetching[d] = @ - 1, !.loading = FALSE,
                                !.students = shown, !.loadedFor = d]
        /\ attendance' = out.att
        /\ nextId' = out.nextId
        /\ audit' = audit \o LogAttendanceChanges(attendance, out.att,
                                [i \in 1..Len(roster) |->
                                   [studentId |-> roster[i], date |-> d]], page.user)
  /\ UNCHANGED <<backend, tz, clock, lockSetting, locks, req, probe, lastWrite,
                 threshold, report>>

\* a fetchStudents call started for date d completes: setStudents, setLoading(false)
SupaFetchStudents(d) ==
  /\ backend = "supabase"
  /\ page.fetching[d] > 0
  /\ LET roster == RosterOf(PageCohort)
     IN page' = [page EXCEPT !.fetching[d] = @ - 1, !.loading = FALSE, !.loadedFor = d,
                   !.students = [i \in 1..Len(roster) |-> RosterRow(attendance, roster[i], d)]]
  /\ UNCHANGED <<backend, tz, clock, attendance, nextId, lockSetting, locks, req, probe, lastWrite,
                 threshold, report, audit>>

\* a checkLock call started for date d completes: setIsLocked(!!data) for the
\* row of attendance_locks
SupaCheckLock(d) ==
  /\ backend = "supabase"
  /\ page.checking[d] > 0
  /\ page' = [page EXCEPT !.checking[d] = @ - 1, !.lockedFor = d,
                          !.isLocked = [cohort |-> PageCohort, date |-> d] \in locks]
  /\ UNCHANGED <<backend, tz, clock, attendance, nextId, lockSetting, locks, req, probe, lastWrite,
                 threshold, report, audit>>

\* updateStatus, from a status button: rendered when not loading, disabled when
\* isLocked && role !== 'admin'
SupaUpdateStatus(i, status) ==
  /\ backend = "supabase"
  /\ ~page.loading
  /\ ~(page.isLocked /\ RoleOf(page.user) # "admin")
  /\ i \in 1..Len(page.students)
  /\ page.students[i].status # status
  /\ page' = [page EXCEPT !.students[i].status = status]
  /\ UNCHANGED <<backend, tz, clock, attendance, nextId, lockSetting, locks, req, probe, lastWrite,
                 threshold, report, audit>>

\* the records handleSave sends: remarks || null
SaveRecords(students, date) ==
  [i \in 1..Len(students) |->
     [studentId |-> students[i].id, date |-> date, status |-> students[i].status,
      remarks |-> IF students[i].remarks = Empty THEN Null ELSE students[i].remarks]]

\* handleSave up to its await: the isLocked guard, setSaving(true), the upsert
\* is sent. The Save button is rendered when the roster is loaded and not
\* empty, and disabled while saving.
SupaSave ==
  /\ backend = "supabase"
  /\ ~page.loading
  /\ page.students # <<>>
  /\ ~page.saving
  /\ page.saves < MaxSaves
  /\ IF page.isLocked /\ RoleOf(page.user) # "admin"
     THEN page' = [page EXCEPT !.res = "locked", !.saves = page.saves + 1]
     ELSE page' = [page EXCEPT !.saving = TRUE,
                               !.sent = Append(@, [recs |-> SaveRecords(page.students, page.date),
                                                   via |-> 0])]
  /\ UNCHANGED <<backend, tz, clock, attendance, nextId, lockSetting, locks, req, probe, lastWrite,
                 threshold, report, audit>>

\* the upsert of the k-th save under way is executed under row level security
\* and its answer arrives: the toast, then finally setSaving(false)
SupaSaveDone(k) ==
  /\ backend = "supabase"
  /\ k \in 1..Len(page.sent)
  /\ LET recs == page.sent[k].recs
         allowed == \A i \in 1..Len(recs) : RlsWriteOk(page.user, recs[i].studentId)
         out == UpsertRows(attendance, nextId, recs, page.user, clock)
     IN IF ~allowed
        THEN /\ page' = [page EXCEPT !.res = "error", !.saves = page.saves + 1,
                                     !.saving = FALSE, !.sent = Without(@, k)]
             /\ UNCHANGED <<attendance, nextId, lastWrite, audit>>
        ELSE /\ page' = [page EXCEPT !.res = "ok", !.saves = page.saves + 1,
                                     !.saving = FALSE, !.sent = Without(@, k)]
             /\ attendance' = out.att
             /\ nextId' = out.nextId
             /\ audit' = audit \o LogAttendanceChanges(attendance, out.att, recs, page.user)
             /\ lastWrite' = [key \in Keys |->
                  IF \E i \in 1..Len(recs) : <<recs[i].studentId, recs[i].date>> = key
                  THEN WriteOf(recs[CHOOSE i \in 1..Len(recs) :
                                      <<recs[i].studentId, recs[i].date>> = key], page.user)
                  ELSE lastWrite[key]]
  /\ UNCHANGED <<backend, tz, clock, lockSetting, locks, req, probe,
                 threshold, report>>

\* "Admins can manage locks": an admin inserts or deletes a row of attendance_locks
AdminLock(d) ==
  /\ backend = "supabase"
  /\ [cohort |-> PageCohort, date |-> d] \notin locks
  /\ locks' = locks \cup {[cohort |-> PageCohort, date |-> d]}
  /\ UNCHANGED <<backend, tz, clock, attendance, nextId, lockSetting, req, page, probe, lastWrite,
                 threshold, report, audit>>

AdminUnlock(d) ==
  /\ backend = "supabase"
  /\ [cohort |-> PageCohort, date |-> d] \in locks
  /\ locks' = locks \ {[cohort |-> PageCohort, date |-> d]}
  /\ UNCHANGED <<backend, tz, clock, attendance, nextId, lockSetting, req, page, probe, lastWrite,
                 threshold, report, audit>>

----------------------------------------------------------------------------
(* The MarkAttendance page of the Express client                            *)

\* the class, section and date are chosen: the effect calls fetchStudents and
\* checkLock for the date just selected
ApiSelect(d) ==
  /\ backend = "express"
  /\ page.user # "none"
  /\ ~page.selected \/ d # page.date
  /\ Fetching < MaxPending /\ Checking < MaxPending
  /\ page' = [page EXCEPT !.selected = TRUE, !.date = d, !.loading = TRUE,
                          !.fetching[d] = @ + 1, !.checking[d] = @ + 1]
  /\ UNCHANGED <<backend, tz, clock, attendance, nextId, lockSetting, locks, req, probe, lastWrite,
                 threshold, report, audit>>

\* GET /students and GET /attendance?date of a call started for date d have
\* answered: setStudents, setLoading(false)
ApiFetchStudents(d) ==
  /\ backend = "express"
  /\ page.fetching[d] > 0
  /\ LET roster == RosterOf(PageCohort)
     IN page' = [page EXCEPT !.fetching[d] = @ - 1, !.loading = FALSE, !.loadedFor = d,
                   !.students = [i \in 1..Len(roster) |-> RosterRow(attendance, roster[i], d)]]
  /\ UNCHANGED <<backend, tz, clock, attendance, nextId, lockSetting, locks, req, probe, lastWrite,
                 threshold, report, audit>>

\* GET /attendance/check-lock of a call started for date d has answered
ApiCheckLock(d) ==
  /\ backend = "express"
  /\ page.checking[d] > 0
  /\ page' = [page EXCEPT !.checking[d] = @ - 1, !.lockedFor = d,
                          !.isLocked = CheckLockEndpoint(d, lockSetting, clock, tz)]
  /\ UNCHANGED <<backend, tz, clock, attendance, nextId, lockSetting, locks, req, probe, lastWrite,
                 threshold, report, audit>>

ApiUpdateStatus(i, status) ==
  /\ backend = "express"
  /\ ~page.loading
  /\ ~(page.isLocked /\ RoleOf(page.user) # "admin")
  /\ i \in 1..Len(page.students)
  /\ page.students[i].status # status
  /\ page' = [page EXCEPT !.students[i].status = status]
  /\ UNCHANGED <<backend, tz, clock, attendance, nextId, lockSetting, locks, req, probe, lastWrite,
                 threshold, report, audit>>

\* variant of ApiSave whose button is not disabled while saving
ApiSaveWhileSaving(r) ==
  /\ backend = "express"
  /\ ~page.loading
  /\ page.students # <<>>
  /\ ~(page.isLocked /\ RoleOf(page.user) # "admin")
  /\ page.saves < MaxSaves
  /\ req[r].pc = "idle"
  /\ \A p \in Reqs : p < r => req[p].pc # "idle"
  /\ LET recs == SaveRecords(page.students, page.date)
     IN /\ page' = [page EXCEPT !.saving = TRUE,
                                !.sent = Append(@, [recs |-> recs, via |-> r])]
        /\ req' = [req EXCEPT ![r] = LoopHead(Entered(page.user, recs))]
  /\ UNCHANGED <<backend, tz, clock, attendance, nextId, lockSetting, locks, probe, lastWrite,
                 threshold, report, audit>>

\* handleSave up to its await: setSaving(true) and POST /attendance/upsert with
\* the roster under the selected date, which request r of the server takes up.
\* The button is disabled while saving and when isLocked && role !== 'admin'.
ApiSave(r) ==
  /\ backend = "express"
  /\ ~page.loading
  /\ page.students # <<>>
  /\ ~page.saving
  /\ ~(page.isLocked /\ RoleOf(page.user) # "admin")
  /\ page.saves < MaxSaves
  /\ req[r].pc = "idle"
  /\ \A p \in Reqs : p < r => req[p].pc # "idle"
  /\ LET recs == SaveRecords(page.students, page.date)
     IN /\ page' = [page EXCEPT !.saving = TRUE,
                                !.sent = Append(@, [recs |-> recs, via |-> r])]
        /\ req' = [req EXCEPT ![r] = LoopHead(Entered(page.user, recs))]
  /\ UNCHANGED <<backend, tz, clock, attendance, nextId, lockSetting, locks, probe, lastWrite,
                 threshold, report, audit>>

\* the answer of the server to the k-th save under way arrives: the toast,
\* then finally setSaving(false)
ApiSaveDone(k) ==
  /\ backend = "express"
  /\ k \in 1..Len(page.sent)
  /\ req[page.sent[k].via].pc = "done"
  /\ page' = [page EXCEPT !.saving = FALSE, !.sent = Without(@, k),
                          !.res = req[page.sent[k].via].res, !.saves = page.saves + 1]
  /\ UNCHANGED <<backend, tz, clock, attendance, nextId, lockSetting, locks, req, probe, lastWrite,
                 threshold, report, audit>>

----------------------------------------------------------------------------
(* JavaScript numbers: IEEE-754 binary64 division, multiplication, Math.round *)
(* A positive double is a significand of 53 bits, the leading 1 and four     *)
(* limbs of 13 bits, and the exponent e of the leading bit; zero has no      *)
(* limbs.                                                                    *)

LimbBits == 13

Limbs == 4

RECURSIVE Pow2(_)
Pow2(k) == IF k = 0 THEN 1 ELSE 2 * Pow2(k - 1)

Limb == Pow2(LimbBits)

Zero == [l |-> <<>>, e |-> 0]

\* scale n/d into [1, 2): r/dd with n/d = (r/dd) * 2^e
RECURSIVE Normalise(_, _, _)
Normalise(n, d, e) ==
  IF n < d THEN Normalise(2 * n, d, e - 1)
  ELSE IF n >= 2 * d THEN Normalise(n, 2 * d, e + 1)
  ELSE [r |-> n, d |-> d, e |-> e]

\* k further limbs of r/d for r < d, and what is left
RECURSIVE DivLimbs(_, _, _, _)
DivLimbs(r, d, k, acc) ==
  IF k = 0 THEN [l |-> acc, rem |-> r]
  ELSE DivLimbs((r * Limb) % d, d, k - 1, Append(acc, (r * Limb) \div d))

RECURSIVE IncLimbs(_)
IncLimbs(l) ==
  IF l = <<>> THEN [l |-> <<>>, carry |-> 1]
  ELSE LET n == Len(l)
       IN IF l[n] + 1 < Limb
          THEN [l |-> [l EXCEPT ![n] = l[n] + 1], carry |-> 0]
          ELSE LET h == IncLimbs(SubSeq(l, 1, n - 1))
               IN [l |-> Append(h.l, 0), carry |-> h.carry]

Compare(x, y) == IF x > y THEN 1 ELSE IF x = y THEN 0 ELSE -1

\* round to nearest, ties to even; cmp is the discarded part against half a unit
RoundNearestEven(l, cmp, e) ==
  IF cmp > 0 \/ (cmp = 0 /\ l[Len(l)] % 2 = 1)
  THEN LET h == IncLimbs(l)
       IN IF h.carry = 1 THEN [l |-> h.l, e |-> e + 1] ELSE [l |-> h.l, e |-> e]
  ELSE [l |-> l, e |-> e]

\* n / d for integers n >= 0, d > 0
FDiv(n, d) ==
  IF n = 0 THEN Zero
  ELSE LET s == Normalise(n, d, 0)
           q == DivLimbs(s.r - s.d, s.d, Limbs, <<>>)
       IN RoundNearestEven(q.l, Compare(2 * q.rem, s.d), s.e)

\* the limbs times c, from the last limb upwards
RECURSIVE MulLimbs(_, _, _, _)
MulLimbs(l, c, carry, acc) ==
  IF l = <<>> THEN [low |-> acc, carry |-> carry]
  ELSE LET n == Len(l)
           v == l[n] * c + carry
       IN MulLimbs(SubSeq(l, 1, n - 1), c, v \div Limb, <<v % Limb>> \o acc)

RECURSIVE Log2(_)
Log2(k) == IF k < 2 THEN 0 ELSE 1 + Log2(k \div 2)

\* x * c for a double x and an integer c in 1..Limb - 1
FMul(x, c) ==
  IF x.l = <<>> THEN Zero
  ELSE LET pr == MulLimbs(x.l, c, 0, <<>>)
           top == c + pr.carry
           k == Log2(top)
           src == <<top - Pow2(k)>> \o pr.low
           kept == [i \in 1..Limbs |->
                      (src[i] % Pow2(k)) * Pow2(LimbBits - k) + (src[i + 1] \div Pow2(k))]
           lost == src[Limbs + 1] % Pow2(k)
       IN RoundNearestEven(kept, IF k = 0 THEN -1 ELSE Compare(2 * lost, Pow2(k)), x.e + k)

\* Math.round of a double 0 <= x < 2^13: the nearest integer, halves upwards
MathRound(x) ==
  IF x.l = <<>> \/ x.e < -1 THEN 0
  ELSE IF x.e = -1 THEN 1
  ELSE Pow2(x.e) + (x.l[1] \div Pow2(LimbBits - x.e))
         + ((x.l[1] \div Pow2(LimbBits - 1 - x.e)) % 2)

----------------------------------------------------------------------------
(* Reports: per-student statistics and the cohort summary                   *)
(* A student's records are the statuses of the attendance rows selected.    *)

NoReport == [kind |-> "none"]

RECURSIVE SeqsUpTo(_, _)
SeqsUpTo(S, n) ==
  IF n = 0 THEN {<<>>}
  ELSE LET shorter == SeqsUpTo(S, n - 1)
       IN shorter \cup {Append(q, x) : q \in shorter, x \in S}

\* p rows present, then a rows absent, then l rows late
RecordsOf(p, a, l) ==
  [i \in 1..(p + a + l) |->
     IF i <= p THEN "present" ELSE IF i <= p + a THEN "absent" ELSE "late"]

\* longer record lists, given by their counts
LongCounts == {<<1, 7, 0>>, <<20, 17, 3>>, <<23, 17, 0>>, <<29, 11, 0>>}

RecordLists ==
  SeqsUpTo(Statuses, MaxRecords) \cup {RecordsOf(c[1], c[2], c[3]) : c \in LongCounts}

CohortInputs == SeqsUpTo(RecordLists, MaxCohort)

ThresholdValues == {Str75, <<"5", "0">>, <<"9", "0">>}

\* records.filter(r => r.status === st).length
CountStatus(records, st) == Cardinality({i \in 1..Len(records) : records[i] = st})

\* total > 0 ? Math.round(((present + late) / total) * 100) : 0
Percentage(positive, total) ==
  IF total > 0 THEN MathRound(FMul(FDiv(positive, total), 100)) ELSE 0

\* stats, total and percentage of one student
Summarize(records) ==
  LET present == CountStatus(records, "present")
      absent == CountStatus(records, "absent")
      late == CountStatus(records, "late")
      total == present + absent + late
  IN [present |-> present, absent |-> absent, late |-> late, total |-> total,
      percentage |-> Percentage(present + late, total)]

\* stats of the student dashboard: total is records.length
DashboardSummary(records) ==
  [present |-> CountStatus(records, "present"),
   absent |-> CountStatus(records, "absent"),
   late |-> CountStatus(records, "late"),
   total |-> Len(records),
   percentage |-> Percentage(CountStatus(records, "present") + CountStatus(records, "late"),
                             Len(records))]

\* attendance.forEach of generateReport: one counter is incremented per row
RECURSIVE Aggregate(_, _)
Aggregate(records, existing) ==
  IF records = <<>> THEN existing
  ELSE Aggregate(Tail(records),
         IF Head(records) = "present" THEN [existing EXCEPT !.present = @ + 1]
         ELSE IF Head(records) = "absent" THEN [existing EXCEPT !.absent = @ + 1]
         ELSE IF Head(records) = "late" THEN [existing EXCEPT !.late = @ + 1]
         ELSE existing)

\* the row of one student in the report of generateReport
ReportRow(records) ==
  LET stats == Aggregate(records, [present |-> 0, absent |-> 0, late |-> 0])
      total == stats.present + stats.absent + stats.late
  IN [present |-> stats.present, absent |-> stats.absent, late |-> stats.late,
      total |-> total, percentage |-> Percentage(stats.present + stats.late, total)]

\* variant of MonthlyStats whose percentage counts the present records only
MonthlyStatsPresentOnly(records) ==
  LET present == CountStatus(records, "present")
      total == Len(records)
  IN [present |-> present, absent |-> CountStatus(records, "absent"),
      late |-> CountStatus(records, "late"), total |-> total,
      percentage |-> Percentage(present, total)]

\* stats of MyAttendance: total is attendanceData.length
MonthlyStats(records) ==
  LET present == CountStatus(records, "present")
      absent == CountStatus(records, "absent")
      late == CountStatus(records, "late")
      total == Len(records)
  IN [present |-> present, absent |-> absent, late |-> late, total |-> total,
      percentage |-> Percentage(present + late, total)]

RECURSIVE SumPercentage(_)
SumPercentage(rows) ==
  IF rows = <<>> THEN 0 ELSE rows[1].percentage + SumPercentage(Tail(rows))

\* variant of AverageAttendance that re-aggregates the raw counts of all students
RECURSIVE SumField(_, _)
SumField(rows, f) == IF rows = <<>> THEN 0 ELSE rows[1][f] + SumField(Tail(rows), f)

AverageOfCounts(rows) ==
  Percentage(SumField(rows, "present") + SumField(rows, "late"), SumField(rows, "total"))

\* reportData.length > 0 ? Math.round(totalPercentage / reportData.length) : 0
AverageAttendance(rows) ==
  IF Len(rows) > 0 THEN MathRound(FDiv(SumPercentage(rows), Len(rows))) ELSE 0

LowAttendance == 75

\* reportData.filter(r => r.percentage < 75).length
BelowThreshold(rows) == Cardinality({i \in 1..Len(rows) : rows[i].percentage < LowAttendance})

\* GET /api/reports/attendance, for one student of the list
ReportsAttendance(records) ==
  /\ backend = "express"
  /\ report = NoReport
  /\ report' = [kind |-> "student", records |-> records, row |-> Summarize(records)]
  /\ UNCHANGED <<backend, tz, clock, attendance, nextId, lockSetting, locks, req, page, probe,
                 lastWrite, threshold, audit>>

\* GET /api/student/dashboard-stats
DashboardStats(records) ==
  /\ backend = "express"
  /\ report = NoReport
  /\ report' = [kind |-> "dashboard", records |-> records, row |-> DashboardSummary(records)]
  /\ UNCHANGED <<backend, tz, clock, attendance, nextId, lockSetting, locks, req, page, probe,
                 lastWrite, threshold, audit>>

\* variant of GenerateReport that lists the students found in the attendance rows
HasRecords(records) == records # <<>>

GenerateReportOfMarked(cohort) ==
  /\ backend = "supabase"
  /\ report = NoReport
  /\ LET marked == SelectSeq(cohort, HasRecords)
         rows == [i \in 1..Len(marked) |-> ReportRow(marked[i])]
     IN report' = [kind |-> "cohort", cohort |-> cohort, stored |-> threshold, rows |-> rows,
                   avgAttendance |-> AverageAttendance(rows),
                   belowThreshold |-> BelowThreshold(rows),
                   totalStudents |-> Len(rows)]
  /\ UNCHANGED <<backend, tz, clock, attendance, nextId, lockSetting, locks, req, page, probe,
                 lastWrite, threshold, audit>>

\* Reports.generateReport: the rows of the students and the summary
GenerateReport(cohort) ==
  /\ backend = "supabase"
  /\ report = NoReport
  /\ LET rows == [i \in 1..Len(cohort) |-> ReportRow(cohort[i])]
     IN report' = [kind |-> "cohort", cohort |-> cohort, stored |-> threshold, rows |-> rows,
                   avgAttendance |-> AverageAttendance(rows),
                   belowThreshold |-> BelowThreshold(rows),
                   totalStudents |-> Len(rows)]
  /\ UNCHANGED <<backend, tz, clock, attendance, nextId, lockSetting, locks, req, page, probe,
                 lastWrite, threshold, audit>>

\* MyAttendance.fetchAttendance: the stats of the student's rows of the month
FetchAttendance(records) ==
  /\ backend = "supabase"
  /\ report = NoReport
  /\ report' = [kind |-> "monthly", records |-> records, row |-> MonthlyStats(records)]
  /\ UNCHANGED <<backend, tz, clock, attendance, nextId, lockSetting, locks, req, page, probe,
                 lastWrite, threshold, audit>>

\* the response is consumed, the Reports page is left
CloseReport ==
  /\ report # NoReport
  /\ report' = NoReport
  /\ UNCHANGED <<backend, tz, clock, attendance, nextId, lockSetting, locks, req, page, probe,
                 lastWrite, threshold, audit>>

\* the settings row low_attendance_threshold is given another value
SetThreshold(v) ==
  /\ v # threshold
  /\ threshold' = v
  /\ UNCHANGED <<backend, tz, clock, attendance, nextId, lockSetting, locks, req, page, probe,
                 lastWrite, report, audit>>

----------------------------------------------------------------------------
(* Specifications                                                           *)

NoProbe ==
  [user |-> "none", date |-> 0, now |-> 0, hours |-> NaN, rejected |-> FALSE, isLocked |-> FALSE]

InitTables ==
  /\ clock = 12 * HourMs
  /\ attendance = {}
  /\ nextId = 1
  /\ lockSetting = <<Str24>>
  /\ locks = {}
  /\ req = [r \in Reqs |-> IdleReq]
  /\ probe = NoProbe
  /\ lastWrite = [k \in Keys |-> NoWrite]
  /\ threshold = Str75
  /\ report = NoReport
  /\ audit = <<>>

\* Express server, requests overlapping; clock and setting do not change
Init ==
  /\ InitTables
  /\ backend = "express"
  /\ tz \in TzOffsets
  /\ page = ClosedPage

Next ==
  \/ \E r \in Reqs, u \in Users, b \in Batches : UpsertBegin(r, u, b)
  \/ \E r \in Reqs : UpsertSelect(r)
  \/ \E r \in Reqs : UpsertWrite(r)

Spec == Init /\ [][Next]_vars

\* either deployment, one upsert request at a time; the clock advances
InitSerial ==
  /\ InitTables
  /\ tz = 0
  /\ \/ /\ backend = "express"
        /\ page = ClosedPage
     \/ /\ backend = "supabase"
        /\ page \in {[ClosedPage EXCEPT !.user = u] : u \in PageUsers}

Quiet == \A r \in Reqs : req[r].pc \in {"idle", "done"}

UpsertBeginSerial(r, u, batch) == Quiet /\ UpsertBegin(r, u, batch)

\* the selection changes when no request of the page is under way
SupaSelectSerial(d) == Fetching = 0 /\ Checking = 0 /\ ~page.saving /\ SupaSelect(d)

NextSerial ==
  \/ \E r \in Reqs, u \in Users, b \in Batches : UpsertBeginSerial(r, u, b)
  \/ \E r \in Reqs : UpsertSelect(r)
  \/ \E r \in Reqs : UpsertWrite(r)
  \/ \E t \in Instants : Tick(t)
  \/ \E d \in Dates : SupaSelectSerial(d)
  \/ \E d \in Dates : SupaFetchStudents(d)
  \/ \E d \in Dates : SupaCheckLock(d)
  \/ \E i \in 1..Len(page.students), st \in Statuses : SupaUpdateStatus(i, st)
  \/ SupaSave
  \/ \E k \in 1..Len(page.sent) : SupaSaveDone(k)
  \/ \E d \in Dates : AdminLock(d)
  \/ \E d \in Dates : AdminUnlock(d)

SpecSerial == InitSerial /\ [][NextSerial]_vars

\* the lock rule alone: the clock passes the boundaries, the setting changes
NextLock ==
  \/ \E t \in FineInstants : Tick(t)
  \/ \E u \in Users, v \in SettingValues : SettingsBulk(u, v)
  \/ \E u \in Users, rec \in RecordInputs : LockProbe(u, rec)

SpecLock == Init /\ [][NextLock]_vars

\* Express requests in flight while the setting is updated and the clock advances
SnapshotUsers == {"ut"}

SnapshotBatches ==
  {b \in [1..MaxBatch -> RecordInputs] :
     b[1].date # b[2].date /\ \A i \in 1..MaxBatch : b[i].status = "present"}

SnapshotValues == {Str24, <<"0">>, <<"4", "8">>}

NextSnapshot ==
  \/ \E r \in Reqs, u \in SnapshotUsers, b \in SnapshotBatches : UpsertBegin(r, u, b)
  \/ \E r \in Reqs : UpsertSelect(r)
  \/ \E r \in Reqs : UpsertWrite(r)
  \/ \E u \in Users, v \in SnapshotValues : SettingsBulk(u, v)
  \/ \E t \in Instants : Tick(t)

InitSnapshot ==
  /\ InitTables
  /\ backend = "express"
  /\ tz = 0
  /\ page = ClosedPage

SpecSnapshot == InitSnapshot /\ [][NextSnapshot]_vars

\* reports over the record lists, the threshold setting changing
InitReport ==
  /\ InitTables
  /\ backend \in {"express", "supabase"}
  /\ tz = 0
  /\ page = ClosedPage

NextReport ==
  \/ \E records \in RecordLists : ReportsAttendance(records)
  \/ \E records \in RecordLists : DashboardStats(records)
  \/ \E cohort \in CohortInputs : GenerateReport(cohort)
  \/ \E records \in RecordLists : FetchAttendance(records)
  \/ CloseReport
  \/ \E v \in ThresholdValues : SetThreshold(v)

SpecReport == InitReport /\ [][NextReport]_vars

\* Express requests one at a time, some records carrying a status outside the enum
ValidationUsers == {"ua", "ut"}

ValidationRecords ==
  {[studentId |-> st, date |-> d, status |-> v, remarks |-> Null] :
     st \in Students, d \in Dates, v \in {"present", "excused"}}

ValidationBatches == UNION {[1..n -> ValidationRecords] : n \in 1..MaxBatch}

NextValidation ==
  \/ \E r \in Reqs, u \in ValidationUsers, b \in ValidationBatches : UpsertBeginSerial(r, u, b)
  \/ \E r \in Reqs : UpsertSelect(r)
  \/ \E r \in Reqs : UpsertWrite(r)

SpecValidation == InitSnapshot /\ [][NextValidation]_vars

\* one MarkAttendance page of either client, the selection changing while
\* loads are under way; the clock passes the lock time of the first date,
\* lock rows are added
InitPage ==
  /\ InitTables
  /\ tz = 0
  /\ backend \in {"express", "supabase"}
  /\ page \in {[ClosedPage EXCEPT !.user = u] : u \in PageUsers}

NextPage ==
  \/ \E d \in Dates : ApiSelect(d)
  \/ \E d \in Dates : ApiFetchStudents(d)
  \/ \E d \in Dates : ApiCheckLock(d)
  \/ \E i \in 1..Len(page.students) : ApiUpdateStatus(i, "absent")
  \/ \E r \in Reqs : ApiSave(r)
  \/ \E k \in 1..Len(page.sent) : ApiSaveDone(k)
  \/ \E r \in Reqs : UpsertSelect(r)
  \/ \E r \in Reqs : UpsertWrite(r)
  \/ \E d \in Dates : SupaSelect(d)
  \/ \E d \in Dates : SupaFetchStudents(d)
  \/ \E d \in Dates : SupaCheckLock(d)
  \/ SupaSave
  \/ \E k \in 1..Len(page.sent) : SupaSaveDone(k)
  \/ Tick(60 * HourMs)
  \/ \E d \in Dates : AdminLock(d)

SpecPage == InitPage /\ [][NextPage]_vars

----------------------------------------------------------------------------
(* Properties                                                               *)

RowsIn(att, k) == {row \in att : row.studentId = k[1] /\ row.date = k[2]}

KeyOf(rec) == <<rec.studentId, rec.date>>

Finished(r) == req[r].pc = "done"

\* C1 (P1, uniqueness): whatever upsert calls were made, a (studentId, date)
\* pair that was written holds exactly one row, whose status, remarks and
\* markedBy are those of the last applied write; a pair never written holds none.
UniqueLastWrite ==
  \A k \in Keys :
    LET rows == RowsIn(attendance, k)
    IN IF lastWrite[k] = NoWrite
       THEN rows = {}
       ELSE /\ Cardinality(rows) = 1
            /\ \A row \in rows :
                 [status |-> row.status, remarks |-> row.remarks,
                  markedBy |-> row.markedBy] = lastWrite[k]

\* C2 (race on upsert): under every interleaving of overlapping upsert
\* requests the register never holds two rows for one (studentId, date).
NoDuplicateRows ==
  \A k \in Keys : Cardinality(RowsIn(attendance, k)) <= 1

\* C3 (P6, batch atomicity): when a request ends with the Locked rejection,
\* every pair named in its batch holds the rows it held before the request.
BatchAtomicity ==
  [][\A r \in Reqs :
       (~Finished(r) /\ req'[r].pc = "done" /\ req'[r].res = "locked")
         => \A i \in 1..Len(req'[r].batch) :
              RowsIn(attendance', KeyOf(req'[r].batch[i]))
                = RowsIn(req'[r].pre, KeyOf(req'[r].batch[i]))]_vars

\* C4 (P3, admin bypass): a request or a save of an admin is never rejected as
\* locked, for every date, instant and lock-hours value, lock row or not.
AdminBypass ==
  /\ \A r \in Reqs :
       req[r].pc # "idle" /\ RoleOf(req[r].user) = "admin" => req[r].res # "locked"
  /\ RoleOf(page.user) = "admin" => page.res # "locked"
  /\ \A d \in Dates, v \in SettingValues :
       ~UpsertLocked("admin", d, LockHoursOf(<<v>>), clock, tz)

\* an admin's request wrote a record whose date is past the window for a teacher
AdminBypassWitness ==
  \E r \in Reqs :
    /\ Finished(r) /\ req[r].res = "ok" /\ req[r].wrote > 0
    /\ RoleOf(req[r].user) = "admin"
    /\ \E i \in 1..Len(req[r].batch) :
         UpsertLocked("teacher", req[r].batch[i].date, req[r].lockHours, req[r].now, tz)

\* the boundary of the lock rule as stated: 23:59:59.999Z of the date plus the hours
DayEndBoundary(date, hours) == DateToMs(date) + DayMs - 1 + hours * HourMs

Probed == probe.user # "none"

\* C5 (lock rule): on a server running in UTC, the upsert of a non-admin is
\* rejected as locked exactly when now is not strictly before the boundary,
\* the boundary instant included, for every numeric lock-hours value (0 too).
LockRuleStrict ==
  (Probed /\ RoleOf(probe.user) # "admin" /\ ~probe.hours.nan /\ tz = 0)
    => (probe.rejected <=> probe.now >= DayEndBoundary(probe.date, probe.hours.v))

\* C6 (P2, boundary value): for the date 2025-01-10 and 24 lock hours, at every
\* offset of the server, a non-admin write and check-lock are open before
\* 2025-01-11T23:59:59.999Z and locked after it.
BoundaryValue ==
  (Probed /\ RoleOf(probe.user) # "admin" /\ probe.date = 0 /\ probe.hours = Num(24))
    => /\ probe.now < DayEndBoundary(0, 24) => ~probe.rejected /\ ~probe.isLocked
       /\ probe.now > DayEndBoundary(0, 24) => probe.rejected /\ probe.isLocked

\* C7 (P7, idempotent resubmission): when the same user submits the same batch
\* twice in succession and both are accepted, every pair of the batch holds the
\* one row it held after the first submission, with the same status, remarks,
\* markedBy and markedAt, and an updatedAt not before the second submission.
IdempotentResubmission ==
  \A r \in Reqs :
    (/\ r + 1 \in Reqs
     /\ Finished(r) /\ req[r].res = "ok"
     /\ Finished(r + 1) /\ req[r + 1].res = "ok"
     /\ req[r + 1].batch = req[r].batch
     /\ req[r + 1].user = req[r].user
     /\ \A p \in Reqs : p > r + 1 => req[p].pc = "idle")
    => \A i \in 1..Len(req[r].batch) :
         LET rows == RowsIn(attendance, KeyOf(req[r].batch[i]))
             old == RowsIn(req[r + 1].pre, KeyOf(req[r].batch[i]))
         IN /\ Cardinality(rows) = 1
            /\ Cardinality(old) = 1
            /\ \A row \in rows, o \in old :
                 /\ row.id = o.id
                 /\ row.status = o.status
                 /\ row.remarks = o.remarks
                 /\ row.markedBy = o.markedBy
                 /\ row.markedAt = o.markedAt
                 /\ row.updatedAt >= req[r + 1].now
                 /\ row.updatedAt >= o.updatedAt

\* the second submission came at a later instant and its row shows it
IdempotentResubmissionWitness ==
  /\ Finished(1) /\ req[1].res = "ok"
  /\ Finished(2) /\ req[2].res = "ok"
  /\ req[2].batch = req[1].batch /\ req[2].user = req[1].user
  /\ req[2].now > req[1].now
  /\ \E row \in attendance :
       /\ row.markedAt = req[1].now
       /\ row.updatedAt = req[2].now

\* C8 (two gates): no step adds or changes a row marked by a non-admin for a
\* class, section and date that has a row in attendance_locks.
AdminLockGate ==
  [][\A row \in attendance' :
       (row \notin attendance /\ RoleOf(row.markedBy) # "admin")
         => [cohort |-> CohortOf(row.studentId), date |-> row.date] \notin locks]_vars

\* C9 (authorization gate): every row is marked by an admin or by a teacher
\* assigned to the student's class and section, and a finished request of
\* anyone else was answered Forbidden.
AuthorizationGate ==
  /\ \A row \in attendance : RlsWriteOk(row.markedBy, row.studentId)
  /\ \A r \in Reqs :
       (Finished(r) /\ \E i \in 1..Len(req[r].batch) :
                         ~RlsWriteOk(req[r].user, req[r].batch[i].studentId))
         => req[r].res = "forbidden"

\* the upsert gate's answer for a non-admin now
TimeLocked(d) == UpsertLocked("teacher", d, LockHoursOf(lockSetting), clock, tz)

\* C10 (time lock is terminal): a date that is time-locked for non-admins stays
\* so over every step a non-admin can take: a settings update, the clock.
TimeLockTerminal ==
  [][((\E u \in Users, v \in SettingValues : RoleOf(u) # "admin" /\ SettingsBulk(u, v))
       \/ (\E t \in FineInstants : Tick(t)))
      => \A d \in Dates : TimeLocked(d) => TimeLocked(d)']_vars

\* C11 (settings are admin-only): a settings update issued by a teacher or a
\* student leaves the stored attendance_lock_hours value as it was.
SettingsAdminOnly ==
  [][(\E u \in Users, v \in SettingValues : RoleOf(u) # "admin" /\ SettingsBulk(u, v))
      => lockSetting' = lockSetting]_vars

\* a finished request's answer is the one its own lock hours and now give:
\* Locked at the first record past the window, success when there is none
JudgedBySnapshot(r) ==
  LET q == req[r]
      locked(i) == UpsertLocked(RoleOf(q.user), q.batch[i].date, q.lockHours, q.now, tz)
  IN /\ q.res = "locked" => locked(q.idx) /\ \A i \in 1..(q.idx - 1) : ~locked(i)
     /\ q.res = "ok" => \A i \in 1..Len(q.batch) : ~locked(i)

\* C12 (policy snapshot per batch): every record of a batch is judged against
\* the lock hours and the now the request took on entry, never a mix, and the
\* hours taken on entry are the ones stored at that moment.
ConsistentSnapshot ==
  /\ [](\A r \in Reqs : Finished(r) => JudgedBySnapshot(r))
  /\ [][\A r \in Reqs :
          /\ req[r].pc # "idle"
               => req'[r].lockHours = req[r].lockHours /\ req'[r].now = req[r].now
          /\ (req[r].pc = "idle" /\ req'[r].pc # "idle")
               => req'[r].lockHours = LockHoursOf(lockSetting) /\ req'[r].now = clock]_vars

\* request 1 judged its second record after the setting was changed under it
ConsistentSnapshotWitness ==
  /\ Finished(1) /\ req[1].res = "locked" /\ req[1].wrote = 1
  /\ req[2].pc # "idle"
  /\ req[2].lockHours # req[1].lockHours
  /\ req[1].now <= req[2].now
  /\ req[2].now < req[1].stamp

\* the number of records with status st, counted record by record
RECURSIVE Occurrences(_, _)
Occurrences(records, st) ==
  IF records = <<>> THEN 0
  ELSE (IF Head(records) = st THEN 1 ELSE 0) + Occurrences(Tail(records), st)

\* num / den rounded to the nearest integer, halves upwards
HalfUp(num, den) == (2 * num + den) \div (2 * den)

\* what summarize is to return for the records
Expected(records) ==
  LET p == Occurrences(records, "present")
      a == Occurrences(records, "absent")
      l == Occurrences(records, "late")
  IN [present |-> p, absent |-> a, late |-> l, total |-> p + a + l,
      percentage |-> IF p + a + l = 0 THEN 0 ELSE HalfUp(100 * (p + l), p + a + l)]

\* C13 (summarize): for every list of records, the empty one included, the
\* counts are the numbers of records of each status, total is their sum and
\* percentage is 0 for total 0, else round(100 * (present + late) / total).
SummarizeCorrect ==
  /\ report.kind \in {"student", "dashboard"} => report.row = Expected(report.records)
  /\ report.kind = "cohort"
       => \A i \in 1..Len(report.rows) : report.rows[i] = Expected(report.cohort[i])

\* C14 (P5, rounding): for counts with total t > 0 the percentage equals
\* floor((200 * (present + late) + t) / (2 * t)), an integer in 0..100.
RoundedHalfUp(row) ==
  row.total > 0
    => /\ row.percentage = (200 * (row.present + row.late) + row.total) \div (2 * row.total)
       /\ row.percentage \in 0..100

RoundingHalfUp ==
  /\ report.kind \in {"student", "dashboard"} => RoundedHalfUp(report.row)
  /\ report.kind = "cohort" => \A i \in 1..Len(report.rows) : RoundedHalfUp(report.rows[i])

RECURSIVE SumOfPercentages(_, _)
SumOfPercentages(rows, i) ==
  IF i = 0 THEN 0 ELSE rows[i].percentage + SumOfPercentages(rows, i - 1)

\* C15 (cohort average): the average is the mean of the students' own
\* percentages, each student weighing the same, rounded to the nearest integer
\* with halves upwards; for an empty cohort it is 0.
AverageUnweightedRounded ==
  report.kind = "cohort"
    => report.avgAttendance =
         (IF Len(report.rows) = 0 THEN 0
          ELSE HalfUp(SumOfPercentages(report.rows, Len(report.rows)), Len(report.rows)))

\* C15 as stated: the average is the mean itself
AverageUnweighted ==
  report.kind = "cohort"
    => report.avgAttendance * Len(report.rows)
         = SumOfPercentages(report.rows, Len(report.rows))

\* one student with 1 record at 100 and one with 3 records at 0: the average is 50
AverageUnweightedWitness ==
  /\ report.kind = "cohort"
  /\ Len(report.rows) = 2
  /\ report.rows[1].total = 1 /\ report.rows[1].percentage = 100
  /\ report.rows[2].total = 3 /\ report.rows[2].percentage = 0
  /\ report.avgAttendance = 50

\* C16 (cohort threshold): belowThreshold is the number of students whose
\* percentage is strictly below the stored low_attendance_threshold.
ThresholdCount ==
  report.kind = "cohort"
    => report.belowThreshold =
         Cardinality({i \in 1..Len(report.rows) :
                        report.rows[i].percentage < ParseInt(report.stored).v})

\* C17 (isDateLocked): the answer of the lock query of the mark page is true
\* exactly when the time window of the date has elapsed or attendance_locks
\* holds a row for the class, section and date.
IsDateLockedCombined ==
  [][\A d \in Dates :
       SupaCheckLock(d)
         => (page'.isLocked <=>
               \/ [cohort |-> PageCohort, date |-> d] \in locks
               \/ CheckLockEndpoint(d, lockSetting, clock, tz))]_vars

Malformed(rec) == rec.status \notin Statuses

\* C18 (ValidationError): a request whose batch holds a malformed record
\* writes no record of the batch and does not end as a success.
ValidationBeforeWrites ==
  \A r \in Reqs :
    (req[r].pc # "idle" /\ \E i \in 1..Len(req[r].batch) : Malformed(req[r].batch[i]))
      => /\ req[r].wrote = 0
         /\ Finished(r) => req[r].res # "ok"

IsDigits(str) == str # <<>> /\ \A i \in 1..Len(str) : str[i] \in DigitChars

\* C19 (lock-window configuration): the stored attendance_lock_hours is always
\* the decimal string of a non-negative integer, and no write is judged with
\* lock hours that are negative or not a number.
LockHoursWellFormed ==
  /\ \A i \in 1..Len(lockSetting) : IsDigits(lockSetting[i])
  /\ Probed => ~probe.hours.nan /\ probe.hours.v >= 0

Conflict(r) ==
  /\ req[r].pc = "write"
  /\ req[r].existing = 0
  /\ req[r].batch[req[r].idx].status \in Statuses
  /\ RowsIn(attendance, KeyOf(req[r].batch[req[r].idx])) # {}

\* C21 (ConflictError retry): a write that meets a concurrent-write conflict adds
\* no row and is re-attempted: the request goes back to the upsert of the same
\* record instead of going on or answering.
ConflictRetried ==
  [][\A r \in Reqs :
       (Conflict(r) /\ UpsertWrite(r))
         => /\ attendance' = attendance
            /\ req'[r].pc = "select"
            /\ req'[r].idx = req[r].idx]_vars

\* the audit entries a step appended
Appended == {audit'[i] : i \in (Len(audit) + 1)..Len(audit')}

\* the entry e records the write of row: kind, new and old values, performer
Records(e, row) ==
  LET old == {o \in attendance : o.id = row.id}
  IN /\ e.recordId = row.id
     /\ e.newData = row
     /\ e.performedBy = row.markedBy
     /\ IF old = {}
        THEN e.action = "INSERT" /\ e.oldData = Null
        ELSE e.action = "UPDATE" /\ \A o \in old : e.oldData = o

\* C22 (audit trail): a step appends to audit_logs and takes nothing from it;
\* every row it inserted or changed has exactly one appended entry, with the
\* matching kind, the written row as new_data, the row before the write as
\* old_data and the writer as performer; every appended entry is of a row of
\* the table.
AuditTrail ==
  [][/\ Len(audit') >= Len(audit)
     /\ SubSeq(audit', 1, Len(audit)) = audit
     /\ \A row \in attendance' \ attendance :
          /\ Cardinality({i \in (Len(audit) + 1)..Len(audit') :
                            audit'[i].recordId = row.id}) = 1
          /\ \A e \in Appended : e.recordId = row.id => Records(e, row)
     /\ \A e \in Appended : e.newData \in attendance']_vars

\* C23 (stale lock state): a save of a non-admin whose page loaded the lock
\* state of the date as unlocked, applied when attendance_locks holds a row for
\* the date by now, is rejected and writes nothing; so is an upsert request of a non-admin
\* that arrives when the time window of every date of its batch has elapsed,
\* whatever check-lock answered before.
StaleLockRejected ==
  [][/\ \A k \in 1..Len(page.sent) :
          (/\ SupaSaveDone(k)
           /\ RoleOf(page.user) # "admin"
           /\ ~page.isLocked
           /\ \A i \in 1..Len(page.sent[k].recs) :
                /\ page.lockedFor = page.sent[k].recs[i].date
                /\ [cohort |-> PageCohort, date |-> page.sent[k].recs[i].date] \in locks)
            => attendance' = attendance /\ page'.res # "ok"
     /\ \A r \in Reqs :
          (/\ req[r].pc = "idle" /\ req'[r].pc # "idle"
           /\ RoleOf(req'[r].user) # "admin"
           /\ \A i \in 1..Len(req'[r].batch) :
                CheckLockEndpoint(req'[r].batch[i].date, lockSetting, clock, tz))
            => attendance' = attendance /\ req'[r].res = "locked"]_vars

\* no fetchStudents and no checkLock call of the page is under way
Settled == page.selected /\ Fetching = 0 /\ Checking = 0

\* C24 (selection races): once every request of the page has completed, the
\* roster and the isLocked flag shown are the ones loaded for the selected
\* date, and a save then sends the roster under the date it was loaded for.
LatestSelectionShown ==
  /\ [](Settled => page.loadedFor = page.date /\ page.lockedFor = page.date)
  /\ [][(Settled /\ ~page.saving /\ page'.saving)
          => \A k \in 1..Len(page'.sent) :
               \A i \in 1..Len(page'.sent[k].recs) :
                 page'.sent[k].recs[i].date = page.loadedFor]_vars

\* C25 (check-lock agrees with the write gate): for every date, stored
\* lock-hours value, instant and server offset, check-lock answers isLocked =
\* true exactly when the upsert of a non-admin with one record of that date,
\* evaluated at the same instant and setting, is rejected as locked.
CheckLockAgrees ==
  (Probed /\ RoleOf(probe.user) # "admin") => (probe.isLocked <=> probe.rejected)

\* both answers were taken one millisecond after the lock time, under a
\* setting that is not the default: locked and rejected
CheckLockAgreesWitness ==
  /\ Probed /\ RoleOf(probe.user) # "admin"
  /\ probe.hours = Num(48)
  /\ probe.now = LockTime(probe.date, probe.hours, tz).v + 1
  /\ probe.isLocked /\ probe.rejected

\* the four implementations give the same row for the records
SameRow(records) ==
  /\ Summarize(records) = ReportRow(records)
  /\ Summarize(records) = DashboardSummary(records)
  /\ Summarize(records) = MonthlyStats(records)
  /\ Len(records) = Summarize(records).present + Summarize(records).absent
                      + Summarize(records).late

\* C26 (the aggregations agree): whichever implementation computed a row for
\* the records of one student, the server report, the client report, the
\* dashboard stats and MyAttendance give that same row, and the number of
\* records is present + absent + late.
AggregationsAgree ==
  /\ report.kind \in {"student", "dashboard", "monthly"}
       => SameRow(report.records) /\ report.row = Summarize(report.records)
  /\ report.kind = "cohort"
       => \A i \in 1..Len(report.rows) :
            SameRow(report.cohort[i]) /\ report.rows[i] = Summarize(report.cohort[i])

\* MyAttendance computed the stats of 20 present, 17 absent and 3 late records
AggregationsAgreeWitness ==
  /\ report.kind = "monthly"
  /\ report.row = [present |-> 20, absent |-> 17, late |-> 3, total |-> 40, percentage |-> 57]

\* the pairs a step may write: the record an upsert request is at, the records
\* of the save of the page that is applied
Written ==
  {KeyOf(req[r].batch[req[r].idx]) : r \in {q \in Reqs : req[q].pc = "write"}}
    \cup (IF backend = "supabase"
          THEN UNION {{KeyOf(page.sent[k].recs[i]) : i \in 1..Len(page.sent[k].recs)} :
                        k \in 1..Len(page.sent)}
          ELSE {})

\* C27 (frame of an upsert): a step keeps every row, with its id, studentId,
\* date and markedAt; it changes the other fields only of rows whose pair is a
\* record of the batch being written, and adds rows only for such pairs.
UpsertFrame ==
  [][/\ \A row \in attendance :
          \E new \in attendance' :
            /\ new.id = row.id
            /\ new.studentId = row.studentId /\ new.date = row.date
            /\ new.markedAt = row.markedAt
            /\ new # row => <<row.studentId, row.date>> \in Written
     /\ \A new \in attendance' :
          (\A row \in attendance : row.id # new.id)
            => <<new.studentId, new.date>> \in Written
     /\ Cardinality({new.id : new \in attendance'}) = Cardinality(attendance')]_vars

\* a row was updated at a later instant while the row of another pair, written
\* before, stayed as it was
UpsertFrameWitness ==
  \E row \in attendance, other \in attendance :
    /\ <<row.studentId, row.date>> # <<other.studentId, other.date>>
    /\ row.updatedAt > row.markedAt
    /\ other.updatedAt = other.markedAt
    /\ other.updatedAt < row.updatedAt

\* C28 (duplicate keys inside one batch): when a request that holds two records
\* of one pair ends as a success, the pair has exactly one row, and the row
\* holds the status and remarks of the last record of the pair in the batch.
DuplicateKeysLastWins ==
  [][\A r \in Reqs :
       (~Finished(r) /\ req'[r].pc = "done" /\ req'[r].res = "ok")
         => \A i \in 1..Len(req'[r].batch), j \in 1..Len(req'[r].batch) :
              LET b == req'[r].batch
              IN (i < j /\ KeyOf(b[i]) = KeyOf(b[j])
                    /\ \A k \in (j + 1)..Len(b) : KeyOf(b[k]) # KeyOf(b[j]))
                   => /\ Cardinality(RowsIn(attendance', KeyOf(b[j]))) = 1
                      /\ \A row \in RowsIn(attendance', KeyOf(b[j])) :
                           /\ row.status = b[j].status
                           /\ row.remarks = b[j].remarks
                           /\ row.markedBy = req'[r].user]_vars

NoRecords == [present |-> 0, absent |-> 0, late |-> 0, total |-> 0, percentage |-> 0]

\* the sum of the percentages of the students that have records
RECURSIVE SumOfMarked(_, _, _)
SumOfMarked(cohort, rows, i) ==
  IF i = 0 THEN 0
  ELSE (IF cohort[i] = <<>> THEN 0 ELSE rows[i].percentage) + SumOfMarked(cohort, rows, i - 1)

\* C29 (students without records): the report has one row per student of the
\* class and section; a student without records has all counts 0 and
\* percentage 0, is counted in belowThreshold, and is counted in the number the
\* sum of percentages is divided by for the average. The server report gives
\* the same row of zeros.
UnmarkedStudentsListed ==
  /\ report.kind = "cohort"
       => /\ Len(report.rows) = Len(report.cohort)
          /\ report.totalStudents = Len(report.cohort)
          /\ \A i \in 1..Len(report.cohort) :
               report.cohort[i] = <<>> => report.rows[i] = NoRecords
          /\ report.belowThreshold =
               Cardinality({i \in 1..Len(report.cohort) : report.cohort[i] = <<>>})
                 + Cardinality({i \in 1..Len(report.cohort) :
                                  report.cohort[i] # <<>>
                                    /\ report.rows[i].percentage < LowAttendance})
          /\ report.avgAttendance =
               (IF Len(report.cohort) = 0 THEN 0
                ELSE HalfUp(SumOfMarked(report.cohort, report.rows, Len(report.cohort)),
                            Len(report.cohort)))
  /\ (report.kind = "student" /\ report.records = <<>>) => report.row = NoRecords

\* a student without records and one present on every day: average 50, one below
UnmarkedStudentsListedWitness ==
  /\ report.kind = "cohort"
  /\ Len(report.cohort) = 2
  /\ report.cohort[1] = <<>>
  /\ report.rows[1] = NoRecords
  /\ report.rows[2].percentage = 100
  /\ report.avgAttendance = 50
  /\ report.belowThreshold = 1

\* the upsert requests the server has not answered yet
Unanswered == {r \in Reqs : req[r].pc \in {"select", "write"}}

\* C30 (Save button state): saving is true exactly while a save request of the
\* page is under way, at most one is, and at most one upsert request is being
\* handled for the page; no save is sent while saving is true, and after the
\* answer to a save, success or failure, saving is false.
SavingWhileInFlight ==
  /\ [](/\ page.saving <=> page.sent # <<>>
        /\ Len(page.sent) <= 1
        /\ Cardinality(Unanswered) <= 1
        /\ \A r \in Unanswered : \E k \in 1..Len(page.sent) : page.sent[k].via = r)
  /\ [][/\ page.saving => Len(page'.sent) <= Len(page.sent)
        /\ Len(page'.sent) < Len(page.sent)
             => ~page'.saving /\ page'.saves = page.saves + 1
                  /\ page'.res \in {"ok", "error", "locked"}]_vars

\* a first save of the Express page was answered, a second one, sent after the
\* lock time of its date had passed, came back rejected, and saving is false
SavingWhileInFlightWitness ==
  /\ backend = "express"
  /\ page.saves = 2
  /\ page.res = "locked"
  /\ ~page.saving
  /\ attendance # {}

====
